---------------------------- MODULE Spec2Model ----------------------------
(***************************************************************************)
(* Position synchronisation and render pipeline of the Survivor Buddy GUI  *)
(* (gui/PositionFrame.py, gui/ControlButtons.py).                          *)
(*                                                                         *)
(* Two threads: the PositionUpdater thread (the poller) and the Tk main    *)
(* loop, which runs process_queue and every widget callback one at a time. *)
(* The poller's statements interleave with the steps of the callback that  *)
(* the main loop is running.                                               *)
(***************************************************************************)
EXTENDS Integers, Sequences, FiniteSets, TLC

(***************************************************************************)
(* Python and Tcl values.  A number is kept in half units (x2 = 2 * value) *)
(* so that a slider can rest between two integers.                         *)
(*   ty = "int"   a Python int                                             *)
(*   ty = "float" a Python float                                           *)
(*   ty = "istr"  text of an integer literal, as in "40"                   *)
(*   ty = "fstr"  text of a float literal, as in "0.0"                     *)
(*   ty = "junk"  text that is no number                                   *)
(***************************************************************************)
PyInt(n) == [ty |-> "int", x2 |-> 2 * n]

PyFloat(h) == [ty |-> "float", x2 |-> h]

IStr(n) == [ty |-> "istr", x2 |-> 2 * n]

FStr(h) == [ty |-> "fstr", x2 |-> h]

Junk == [ty |-> "junk", x2 |-> 0]

IsNumber(v) == v.ty \in {"int", "float"}

\* Truncation toward zero of a value kept in half units.
Trunc(h) == IF h >= 0 THEN h \div 2 ELSE -((-h) \div 2)

\* int(v) succeeds: a number, or text of an integer literal ("0.0" is refused).
CanInt(v) == v.ty \in {"int", "float", "istr"}

\* int(v), where it succeeds.
IntOf(v) == IF v.ty = "float" THEN Trunc(v.x2) ELSE v.x2 \div 2

\* round(v) of a number: halves go to the even neighbour.
Round(v) ==
    IF v.x2 % 2 = 0 THEN v.x2 \div 2
    ELSE LET lo == (v.x2 - 1) \div 2 IN IF lo % 2 = 0 THEN lo ELSE lo + 1

\* str(v), and the text Tcl keeps for a value handed to a widget's set.
Str(v) ==
    CASE v.ty = "int" -> [ty |-> "istr", x2 |-> v.x2]
      [] v.ty = "float" -> [ty |-> "fstr", x2 |-> v.x2]
      [] OTHER -> v

\* PyNe calling any two values different.
PyNeAlways(a, b) == TRUE

\* Python's a != b: numbers compare by value, text by its characters, and
\* text never equals a number.
PyNe(a, b) ==
    IF IsNumber(a) /\ IsNumber(b) THEN a.x2 # b.x2
    ELSE IF IsNumber(a) \/ IsNumber(b) THEN TRUE
    ELSE a # b

(***************************************************************************)
(* Configuration: create_controls and the literals of the handlers.        *)
(***************************************************************************)
Axes == {"pitch", "yaw", "roll"}

\* axis=0 pitch, axis=1 yaw, axis=2 roll.
AxisNo == [pitch |-> 0, yaw |-> 1, roll |-> 2]

\* from_ and to of the three LabelScaleSpinbox controls.
Min == [pitch |-> 0, yaw |-> -90, roll |-> 0]

Max == [pitch |-> 90, yaw |-> 90, roll |-> 90]

\* The order in which run() offers the axes and process_queue drains them.
Order == <<"yaw", "pitch", "roll">>

StepUp == 5

StepRight == 20

StepLeft == 20

StepDown == 5

UpLimit == 90

RightLimit == 90

LeftLimit == -90

DownLimit == 0

(***************************************************************************)
(* Bounds of the model and the inputs the environment draws from.          *)
(***************************************************************************)
\* How many widget callbacks the operator triggers in one run.
MaxUserActions == 1

\* The pose the hardware reports while the pipeline is examined.
HwPoses == { [pitch |-> 10, yaw |-> -5, roll |-> 0] }

\* The poses the hardware reports while the controls are examined: next to
\* the limits of the directional buttons.
LimitPoses ==
    { [pitch |-> 86, yaw |-> 75, roll |-> 0],
      [pitch |-> 3, yaw |-> -75, roll |-> 0] }

\* Where the operator releases a slider (half units).
SliderDrags ==
    [pitch |-> {173}, yaw |-> {-151}, roll |-> {61}]

\* What the operator leaves in a numeric box.
Texts == {IStr(40), IStr(95), Junk}

None == [ty |-> "none", x2 |-> 0]

VARIABLES
    is_connected,    \* serial_arm_controller.is_connected
    slider,          \* slider value of each control (half units)
    spinbox,         \* text of each control's numeric box
    current_value,   \* current_value of each control
    queue,           \* yaw_queue, pitch_queue, roll_queue (LifoQueue)
    p_pc, p_ax,      \* poller: position in run(), axis being offered
    pose,            \* poller locals yaw, pitch, roll
    r_pc, r_ax,      \* process_queue: position, axis being dequeued
    new,             \* process_queue locals newYaw, newPitch, newRoll
    rendered,        \* pos_render.yawD, pitchD, rollD
    canvas,          \* what pos_render's 3D axes show
    logFile,         \* latest line of the log file
    notifications,   \* latest line of the notification sink
    render_error,    \* a get() raised queue.Empty
    orientation,     \* ControlButtons.orientation
    userActions,     \* callbacks triggered so far
    last,            \* what the latest widget callback did
    handler,         \* the callback the main loop is in: position and locals
    cycle,           \* what the latest process_queue cycle did
    first,           \* first value offered to each queue since its last get
    scn              \* scenario: hardware readings taken, log lines written

vars ==
    << is_connected, slider, spinbox, current_value, queue, p_pc, p_ax, pose,
       r_pc, r_ax, new, rendered, canvas, logFile, notifications,
       render_error, orientation, userActions, last, handler, cycle, first,
       scn >>

ctlVars == << slider, spinbox, current_value >>

pollVars == << p_pc, p_ax, pose >>

renderVars ==
    << r_pc, r_ax, new, rendered, canvas, logFile, render_error, cycle >>

ghostQ == << first, scn >>

\* The latest line of an append-only stream: the model keeps no more of it.
Tail1(s) == IF Len(s) = 0 THEN s ELSE << s[Len(s)] >>

(***************************************************************************)
(* queue.LifoQueue                                                         *)
(***************************************************************************)
\* Queue.empty()
QueueEmpty(q) == Len(q) = 0

\* Queue.put(v)
QueuePut(q, v) == Append(q, v)

\* Queue.get(0) on a queue that holds something: the item put last.
QueueTop(q) == q[Len(q)]

QueuePop(q) == SubSeq(q, 1, Len(q) - 1)

(***************************************************************************)
(* RenderDiagram.  The 3D axes hold the arm base that draw_axes draws and  *)
(* the wireframes drawn since the axes were last cleared; a wireframe is   *)
(* told by the three angles it was computed from (half units of a degree). *)
(***************************************************************************)
\* float(v) succeeds: a number, or text of a number.
CanFloat(v) == v.ty \in {"int", "float", "istr", "fstr"}

\* float(v), in half units, where it succeeds.
Float(v) == v.x2

\* self.ax.clear()
ClearedAxes == [base |-> FALSE, arm |-> {}]

\* self.draw_axes()
draw_axes(cv) == [cv EXCEPT !.base = TRUE]

\* The quivers of update_render: the wireframe of the pose.
Wireframe(new_yaw, new_pitch, new_roll) ==
    [yaw |-> -Float(new_yaw), pitch |-> Float(new_pitch),
     roll |-> Float(new_roll)]

\* update_render drawing over what the axes already show.
update_renderNoClear(cv, new_yaw, new_pitch, new_roll) ==
    [canvas |-> [draw_axes(cv) EXCEPT
                    !.arm = @ \cup { Wireframe(new_yaw, new_pitch, new_roll) }],
     yawD |-> new_yaw, pitchD |-> new_pitch, rollD |-> new_roll]

\* update_render(new_yaw, new_pitch, new_roll) on axes showing cv: the axes
\* afterwards and the pose stored in yawD, pitchD, rollD.
update_render(cv, new_yaw, new_pitch, new_roll) ==
    [canvas |-> [draw_axes(ClearedAxes) EXCEPT
                    !.arm = @ \cup { Wireframe(new_yaw, new_pitch, new_roll) }],
     yawD |-> new_yaw, pitchD |-> new_pitch, rollD |-> new_roll]

\* The record of a render cycle that has just begun.
NoCycle(kind, full) ==
    [kind |-> kind, full |-> full, got |-> [a \in Axes |-> 0],
     logged |-> FALSE, drew |-> FALSE]

\* self.slider.get() of a Scale that was never moved: the number 0, which
\* Tcl hands over as an integer or as a double depending on how it holds it.
ScaleGet0 == {PyInt(0), PyFloat(0)}

NoCallback ==
    [op |-> "none", axis |-> "none", conn |-> FALSE, result |-> "none",
     arg |-> None, cmds |-> << >>, notes |-> << >>, printed |-> << >>,
     polls |-> 0, read |-> "none"]

\* The main loop is in no callback.
NoHandler ==
    [pc |-> "idle", op |-> "none", axis |-> "none", newVal |-> None,
     chosen |-> None, cmds |-> << >>]

\* Everything but the arm's connection.
InitControls ==
    /\ slider = [a \in Axes |-> 0]
    /\ \E v \in ScaleGet0 :
         /\ current_value = [a \in Axes |-> v]
         /\ spinbox = [a \in Axes |-> Str(v)]
    /\ queue = [a \in Axes |-> << >>]
    /\ p_pc = "top"
    /\ p_ax = 1
    /\ pose = [a \in Axes |-> PyInt(0)]
    /\ r_pc = "idle"
    /\ r_ax = 1
    /\ new = [a \in Axes |-> None]
    /\ rendered = [a \in Axes |-> PyInt(0)]
    /\ canvas = draw_axes(ClearedAxes)
    /\ logFile = << >>
    /\ notifications = << >>
    /\ render_error = FALSE
    /\ orientation = "PORTRAIT"
    /\ userActions = 0
    /\ last = NoCallback
    /\ handler = NoHandler
    /\ cycle = NoCycle("none", FALSE)
    /\ first = [a \in Axes |-> None]
    /\ scn = [reads |-> 0, logs |-> 0]

\* The program starts with the arm not connected.
Init ==
    /\ is_connected = FALSE
    /\ InitControls

(***************************************************************************)
(* PositionUpdater.run                                                     *)
(***************************************************************************)
\* A poll cycle begins: after an edit of a numeric box, last counts the
\* cycles begun since, as none, one or more, and tells what the latest read.
CycleBegins(read) ==
    last' = IF last.op # "validate_spinbox" THEN last
            ELSE [last EXCEPT !.polls = IF @ < 2 THEN @ + 1 ELSE @,
                              !.read = read]

\* After the axis at p_ax: the next axis, or the sleep and the next cycle.
PollAdvance ==
    IF p_ax < Len(Order)
    THEN /\ p_pc' = "chk"
         /\ p_ax' = p_ax + 1
    ELSE /\ p_pc' = "top"
         /\ p_ax' = 1

\* ReadPosition writing the pitch reading to the yaw control and the yaw
\* reading to the pitch control.
ReadPositionCrossed(H) ==
    /\ p_pc = "top"
    /\ is_connected
    /\ \E h \in H :
         LET x == [pitch |-> h["yaw"], yaw |-> h["pitch"], roll |-> h["roll"]] IN
         /\ pose' = [a \in Axes |-> PyInt(h[a])]
         /\ slider' = [a \in Axes |-> 2 * x[a]]
         /\ spinbox' = [a \in Axes |-> Str(PyInt(x[a]))]
    /\ p_pc' = "chk"
    /\ p_ax' = 1
    /\ CycleBegins("hardware")
    /\ UNCHANGED << is_connected, current_value, queue, renderVars,
                    notifications, orientation, userActions, handler, first >>

\* Connected and update_position() succeeds: the three readings go to the
\* locals and to each control's slider and numeric box.  H: the poses the
\* hardware may report.
ReadPosition(H) ==
    /\ p_pc = "top"
    /\ is_connected
    /\ \E h \in H :
         /\ pose' = [a \in Axes |-> PyInt(h[a])]
         /\ slider' = [a \in Axes |-> 2 * h[a]]
         /\ spinbox' = [a \in Axes |-> Str(PyInt(h[a]))]
    /\ p_pc' = "chk"
    /\ p_ax' = 1
    /\ CycleBegins("hardware")
    /\ UNCHANGED << is_connected, current_value, queue, renderVars,
                    notifications, orientation, userActions, handler, first >>

PollReadHardware(H) == ReadPosition(H) /\ UNCHANGED scn

\* PollReadFails without the try: the exception ends the thread.
PollReadFailsFatal ==
    /\ p_pc = "top"
    /\ is_connected
    /\ p_pc' = "dead"
    /\ p_ax' = 1
    /\ CycleBegins("failed")
    /\ UNCHANGED << is_connected, ctlVars, queue, pose, renderVars,
                    notifications, orientation, userActions, handler, ghostQ >>

\* Connected and update_position() raises: warn, close, keep the old locals.
PollReadFails ==
    /\ p_pc = "top"
    /\ is_connected
    /\ notifications' =
           Tail1(Append(notifications, "WARNING: DEVICE DISCONNECTED"))
    /\ is_connected' = FALSE
    /\ p_pc' = "chk"
    /\ p_ax' = 1
    /\ CycleBegins("failed")
    /\ UNCHANGED << ctlVars, queue, pose, renderVars, orientation,
                    userActions, handler, ghostQ >>

\* PollReadControls taking each control's current_value, not its text.
PollReadControlsValue ==
    /\ p_pc = "top"
    /\ ~is_connected
    /\ pose' = [a \in Axes |-> current_value[a]]
    /\ p_pc' = "chk"
    /\ p_ax' = 1
    /\ CycleBegins("controls")
    /\ UNCHANGED << is_connected, ctlVars, queue, renderVars, notifications,
                    orientation, userActions, handler, ghostQ >>

\* Not connected: the locals take the text of the three numeric boxes.
PollReadControls ==
    /\ p_pc = "top"
    /\ ~is_connected
    /\ pose' = [a \in Axes |-> spinbox[a]]
    /\ p_pc' = "chk"
    /\ p_ax' = 1
    /\ CycleBegins("controls")
    /\ UNCHANGED << is_connected, ctlVars, queue, renderVars, notifications,
                    orientation, userActions, handler, ghostQ >>

\* PollCheck without the test: every cycle puts.
PollCheckNoGuard ==
    /\ p_pc = "chk"
    /\ first' = [first EXCEPT ![Order[p_ax]] = IF @ = None THEN pose[Order[p_ax]] ELSE @]
    /\ p_pc' = "put"
    /\ p_ax' = p_ax
    /\ UNCHANGED << is_connected, ctlVars, queue, pose, renderVars,
                    notifications, orientation, userActions, handler, last, scn >>

\* PollCheck that overwrites the sample of a full queue with the new one.
PollCheckReplace ==
    /\ p_pc = "chk"
    /\ LET a == Order[p_ax] IN
         /\ first' = [first EXCEPT ![a] = IF @ = None THEN pose[a] ELSE @]
         /\ IF Len(queue[a]) = 0
            THEN /\ p_pc' = "put"
                 /\ p_ax' = p_ax
                 /\ UNCHANGED queue
            ELSE /\ PollAdvance
                 /\ queue' = [queue EXCEPT ![a] = << pose[a] >>]
    /\ UNCHANGED << is_connected, ctlVars, pose, renderVars,
                    notifications, orientation, userActions, handler, last, scn >>

\* if (self.<axis>_queue.empty()):
PollCheck ==
    /\ p_pc = "chk"
    /\ LET a == Order[p_ax] IN
         /\ first' = [first EXCEPT ![a] = IF @ = None THEN pose[a] ELSE @]
         /\ IF QueueEmpty(queue[a])
            THEN /\ p_pc' = "put"
                 /\ p_ax' = p_ax
            ELSE PollAdvance
    /\ UNCHANGED << is_connected, ctlVars, queue, pose, renderVars,
                    notifications, orientation, userActions, handler, last, scn >>

\*     self.<axis>_queue.put(<axis>)
PollPut ==
    /\ p_pc = "put"
    /\ LET a == Order[p_ax] IN
         queue' = [queue EXCEPT ![a] = QueuePut(@, pose[a])]
    /\ PollAdvance
    /\ UNCHANGED << is_connected, ctlVars, pose, renderVars, notifications,
                    orientation, userActions, handler, last, ghostQ >>

(***************************************************************************)
(* PositionFrame.process_queue and RenderDiagram.update_render             *)
(***************************************************************************)
\* The test of process_queue looking at the yaw queue alone.
AllPopulatedYawOnly == ~QueueEmpty(queue["yaw"])

\* not (yaw_queue.empty() or pitch_queue.empty() or roll_queue.empty())
AllPopulated == \A a \in Axes : ~QueueEmpty(queue[a])

\* The test at the top of a render cycle.
ProcessQueueBegin ==
    /\ r_pc = "idle"
    /\ LET full == \A a \in Axes : Len(queue[a]) > 0 IN
         IF AllPopulated
         THEN /\ r_pc' = "get"
              /\ r_ax' = 1
              /\ cycle' = NoCycle("drain", full)
         ELSE /\ UNCHANGED << r_pc, r_ax >>
              /\ cycle' = NoCycle("skip", full)
    /\ UNCHANGED << is_connected, ctlVars, queue, pollVars, new, rendered,
                    canvas, logFile, notifications, render_error, orientation,
                    userActions, handler, last, ghostQ >>

\* new<Axis> = self.<axis>_queue.get(0): never waits, raises on an empty queue.
ProcessQueueGet ==
    /\ r_pc = "get"
    /\ LET a == Order[r_ax] IN
         IF QueueEmpty(queue[a])
         THEN /\ render_error' = TRUE
              /\ r_pc' = "idle"
              /\ r_ax' = 1
              /\ UNCHANGED << queue, new, cycle, first >>
         ELSE /\ new' = [new EXCEPT ![a] = QueueTop(queue[a])]
              /\ queue' = [queue EXCEPT ![a] = QueuePop(@)]
              /\ cycle' = [cycle EXCEPT !.got[a] = @ + 1]
              /\ first' = [first EXCEPT ![a] = None]
              /\ UNCHANGED render_error
              /\ IF r_ax < Len(Order)
                 THEN /\ r_pc' = "get"
                      /\ r_ax' = r_ax + 1
                 ELSE /\ r_pc' = "render"
                      /\ r_ax' = 1
    /\ UNCHANGED << is_connected, ctlVars, pollVars, rendered, canvas,
                    logFile, notifications, orientation, userActions, handler, last,
                    scn >>

\* LogLine with pitch and yaw changing places.
LogLineCrossed ==
    [P |-> Str(new["yaw"]), Y |-> Str(new["pitch"]), R |-> Str(new["roll"])]

\* The line written to the log file (the timestamp is left out).
LogLine == [P |-> Str(new["pitch"]), Y |-> Str(new["yaw"]), R |-> Str(new["roll"])]

\* The comparison with the rendered pose, the log line, update_render.
\* Where float() of a drained value raises, update_render has cleared the
\* axes and drawn the base, and process_queue ends before it schedules its
\* next run.
CompareLogRender ==
    /\ r_pc = "render"
    /\ LET changed == \E a \in Axes : PyNe(new[a], rendered[a])
           raises == \E a \in Axes : ~CanFloat(new[a])
       IN  /\ logFile' =
                 IF changed THEN Tail1(Append(logFile, LogLine)) ELSE logFile
           /\ cycle' = [cycle EXCEPT !.logged = changed, !.drew = ~raises]
           /\ IF raises
              THEN /\ canvas' = draw_axes(ClearedAxes)
                   /\ rendered' = rendered
                   /\ r_pc' = "dead"
              ELSE LET u == update_render(canvas, new["yaw"], new["pitch"],
                                         new["roll"])
                   IN  /\ canvas' = u.canvas
                       /\ rendered' = [pitch |-> u.pitchD, yaw |-> u.yawD,
                                       roll |-> u.rollD]
                       /\ r_pc' = "idle"
    /\ new' = [a \in Axes |-> None]
    /\ UNCHANGED << is_connected, ctlVars, queue, pollVars, r_ax,
                    notifications, render_error, orientation, userActions, handler,
                    last, first >>

ProcessQueueRender == CompareLogRender /\ UNCHANGED scn

(***************************************************************************)
(* LabelScaleSpinbox.  A control is the record [slider, box, cv]; a        *)
(* handler maps a control to an outcome: the control afterwards, the       *)
(* commands sent to the arm, the lines appended to the notification sink,  *)
(* the lines printed, and how the handler ended.                           *)
(***************************************************************************)
Control(a) == [slider |-> slider[a], box |-> spinbox[a], cv |-> current_value[a]]

Outcome(c, result, cmds, notes, printed) ==
    [c |-> c, result |-> result, cmds |-> cmds, notes |-> notes, printed |-> printed]

\* int() of text that is no integer literal, outside any try.
ValueError(c) == Outcome(c, "raised", << >>, << >>, << >>)

\* send_command without the test of is_connected.
send_commandAlways(conn, a, cv) ==
    CASE AxisNo[a] = 0 -> << [cmd |-> "set_pitch", val |-> cv] >>
      [] AxisNo[a] = 1 -> << [cmd |-> "set_yaw", val |-> cv] >>
      [] AxisNo[a] = 2 -> << [cmd |-> "set_roll", val |-> cv] >>

\* send_command: one command for the control's axis, only when connected.
send_command(conn, a, cv) ==
    IF conn
    THEN CASE AxisNo[a] = 0 -> << [cmd |-> "set_pitch", val |-> cv] >>
           [] AxisNo[a] = 1 -> << [cmd |-> "set_yaw", val |-> cv] >>
           [] AxisNo[a] = 2 -> << [cmd |-> "set_roll", val |-> cv] >>
    ELSE << >>

\* set_slider: slider and current value from the numeric box, then the command.
set_slider(c, conn, a) ==
    IF ~CanInt(c.box)
    THEN Outcome(c, "rejected", << >>, << >>, << "Error: Input must be a number" >>)
    ELSE LET val == PyInt(IntOf(c.box)) IN
         Outcome([c EXCEPT !.slider = val.x2, !.cv = val], "accepted",
                 send_command(conn, a, val), << >>, << >>)

\* sliderUpdate, after the slider was released at c.slider.
sliderUpdate(c, conn, a) ==
    LET newVal == PyInt(IntOf(PyFloat(c.slider))) IN
    Outcome([c EXCEPT !.box = Str(newVal), !.cv = newVal], "accepted",
            send_command(conn, a, newVal), << >>, << >>)

\* The accepted branch that the four directional handlers share: the box,
\* the current value, set_slider(), send_command().
Move(c, conn, a, newVal) ==
    LET c1 == [c EXCEPT !.box = Str(PyInt(newVal)), !.cv = PyInt(newVal)]
        s  == set_slider(c1, conn, a)
    IN  Outcome(s.c, "accepted", s.cmds \o send_command(conn, a, s.c.cv),
                << >>, s.printed)

\* incrementUp writing the numeric box before it tests the limit.
incrementUpEager(c, conn, a) ==
    IF ~CanInt(c.box) THEN ValueError(c)
    ELSE LET newVal == IntOf(c.box) + StepUp IN
         IF newVal >= UpLimit
         THEN Outcome([c EXCEPT !.box = Str(PyInt(newVal))], "rejected", << >>,
                      << "Error: Can't Move Up Any Farther" >>, << >>)
         ELSE Move(c, conn, a, newVal)

incrementUp(c, conn, a) ==
    IF ~CanInt(c.box) THEN ValueError(c)
    ELSE LET newVal == IntOf(c.box) + StepUp IN
         IF newVal >= UpLimit
         THEN Outcome(c, "rejected", << >>,
                      << "Error: Can't Move Up Any Farther" >>, << >>)
         ELSE Move(c, conn, a, newVal)

\* incrementRight stepping by the 5 of incrementUp.
incrementRightStep5(c, conn, a) ==
    IF ~CanInt(c.box) THEN ValueError(c)
    ELSE LET newVal == IntOf(c.box) + StepUp IN
         IF newVal >= RightLimit
         THEN Outcome(c, "rejected", << >>,
                      << "Error: Can't Move Right Any Farther" >>, << >>)
         ELSE Move(c, conn, a, newVal)

incrementRight(c, conn, a) ==
    IF ~CanInt(c.box) THEN ValueError(c)
    ELSE LET newVal == IntOf(c.box) + StepRight IN
         IF newVal >= RightLimit
         THEN Outcome(c, "rejected", << >>,
                      << "Error: Can't Move Right Any Farther" >>, << >>)
         ELSE Move(c, conn, a, newVal)

decrementLeft(c, conn, a) ==
    IF ~CanInt(c.box) THEN ValueError(c)
    ELSE LET newVal == IntOf(c.box) - StepLeft IN
         IF newVal <= LeftLimit
         THEN Outcome(c, "rejected", << >>,
                      << "Error: Can't Move Left Any Farther" >>, << >>)
         ELSE Move(c, conn, a, newVal)

decrementDown(c, conn, a) ==
    IF ~CanInt(c.box) THEN ValueError(c)
    ELSE LET newVal == IntOf(c.box) - StepDown IN
         IF newVal <= DownLimit
         THEN Outcome(c, "rejected", << >>,
                      << "Error: Can't Move Down Any Farther" >>, << >>)
         ELSE Move(c, conn, a, newVal)

\* invalid_spinbox, which Tk runs when validate_spinbox returns False.
invalid_spinbox(a) ==
    << [text |-> "Error: Position input must be a number between {} and {}",
        min |-> Min[a], max |-> Max[a]] >>

\* validate_spinbox without the test of the range.
validate_spinboxNoRange(c, conn, a, val) ==
    IF ~CanInt(val)
    THEN Outcome([c EXCEPT !.box = Str(PyInt(Round(c.cv)))], "rejected",
                 << >>, << >>, invalid_spinbox(a))
    ELSE Outcome([c EXCEPT !.slider = 2 * IntOf(val)], "accepted",
                 << >>, << >>, << >>)

\* validate_spinbox(val) on focus-out, the box holding the text val.
validate_spinbox(c, conn, a, val) ==
    LET restore == [c EXCEPT !.box = Str(PyInt(Round(c.cv)))] IN
    IF ~CanInt(val)
    THEN Outcome(restore, "rejected", << >>, << >>, invalid_spinbox(a))
    ELSE LET ival == IntOf(val) IN
         IF ival < Min[a] \/ ival > Max[a]
         THEN Outcome(restore, "rejected", << >>, << >>, invalid_spinbox(a))
         ELSE Outcome([c EXCEPT !.slider = 2 * ival], "accepted",
                      << >>, << >>, << >>)

\* The main loop runs one event at a time, between render cycles.
CanAct ==
    /\ r_pc \in {"idle", "dead"}
    /\ userActions < MaxUserActions

\* The operator has typed into a numeric box and not left it yet.
Editing == last.op = "type"

\* The operator finishes an edit before touching another widget.
CanCall == CanAct /\ ~Editing

\* The effect of a callback of control a on the state.
Apply(op, a, arg, out) ==
    /\ slider' = [slider EXCEPT ![a] = out.c.slider]
    /\ spinbox' = [spinbox EXCEPT ![a] = out.c.box]
    /\ current_value' = [current_value EXCEPT ![a] = out.c.cv]
    /\ notifications' = Tail1(notifications \o out.notes)
    /\ last' = [op |-> op, axis |-> a, conn |-> is_connected,
                result |-> out.result, arg |-> arg, cmds |-> out.cmds,
                notes |-> out.notes, printed |-> out.printed, polls |-> 0,
                read |-> "none"]
    /\ userActions' = userActions + 1
    /\ UNCHANGED << is_connected, queue, pollVars, renderVars, orientation,
                    handler, ghostQ >>

\* <ButtonRelease-1> on a slider the operator dragged to h.
SliderRelease ==
    /\ CanCall
    /\ \E a \in Axes : \E h \in SliderDrags[a] :
         Apply("sliderUpdate", a, PyFloat(h),
               sliderUpdate([Control(a) EXCEPT !.slider = h], is_connected, a))

\* "Move up" and "Move down" belong to the pitch control, "Move left" and
\* "Move right" to the yaw control.
PressUp ==
    /\ CanCall
    /\ Apply("incrementUp", "pitch", None,
             incrementUp(Control("pitch"), is_connected, "pitch"))

PressDown ==
    /\ CanCall
    /\ Apply("decrementDown", "pitch", None,
             decrementDown(Control("pitch"), is_connected, "pitch"))

PressRight ==
    /\ CanCall
    /\ Apply("incrementRight", "yaw", None,
             incrementRight(Control("yaw"), is_connected, "yaw"))

PressLeft ==
    /\ CanCall
    /\ Apply("decrementLeft", "yaw", None,
             decrementLeft(Control("yaw"), is_connected, "yaw"))

\* The operator types the text t into a numeric box: validate="focusout"
\* runs no handler until the focus leaves the box.
SpinboxType ==
    /\ CanAct
    /\ \E a \in Axes : \E t \in Texts :
         /\ Editing => a = last.axis
         /\ spinbox' = [spinbox EXCEPT ![a] = t]
         /\ last' = [NoCallback EXCEPT !.op = "type", !.axis = a, !.arg = t,
                                       !.conn = is_connected]
    /\ UNCHANGED << is_connected, slider, current_value, queue, pollVars,
                    renderVars, notifications, orientation, userActions, handler,
                    ghostQ >>

\* Focus leaves the numeric box the operator typed into: validate_spinbox
\* gets the text the box holds.
SpinboxFocusOut ==
    /\ CanAct
    /\ Editing
    /\ LET a == last.axis IN
         Apply("validate_spinbox", a, spinbox[a],
               validate_spinbox(Control(a), is_connected, a, spinbox[a]))

\* The value an arrow of the numeric box steps to: one up or down, kept
\* within from_ and to, written as an integer.
Spin(box, a, d) ==
    LET n == Trunc(box.x2) + d IN
    IStr(IF n < Min[a] THEN Min[a] ELSE IF n > Max[a] THEN Max[a] ELSE n)

\* An arrow of a numeric box: Tk steps the text, then runs command=set_slider.
SpinboxArrow ==
    /\ CanCall
    /\ \E a \in Axes : \E d \in {-1, 1} :
         /\ spinbox[a].ty \in {"istr", "fstr"}
         /\ Apply("set_slider", a, PyInt(d),
                  set_slider([Control(a) EXCEPT !.box = Spin(spinbox[a], a, d)],
                             is_connected, a))

(***************************************************************************)
(* ControlButtons                                                          *)
(***************************************************************************)
Buttons ==
    {"open_arm", "close_arm", "portrait", "landscape", "tilt", "nod", "shake"}

\* open_arm .. shake: the arm's method of the same name, only when connected.
button(conn, b) == IF conn THEN << [cmd |-> b, val |-> None] >> ELSE << >>

PressButton ==
    /\ CanCall
    /\ \E b \in Buttons :
         /\ last' = [NoCallback EXCEPT !.op = b, !.conn = is_connected,
                                       !.result = "accepted",
                                       !.cmds = button(is_connected, b)]
         /\ orientation' =
               IF is_connected /\ b = "portrait" THEN "PORTRAIT"
               ELSE IF is_connected /\ b = "landscape" THEN "LANDSCAPE"
               ELSE orientation
    /\ userActions' = userActions + 1
    /\ UNCHANGED << is_connected, ctlVars, queue, pollVars, renderVars,
                    notifications, handler, ghostQ >>

(***************************************************************************)
(* The arm capability                                                      *)
(***************************************************************************)
\* The operator connects the arm.
Connect ==
    /\ ~is_connected
    /\ is_connected' = TRUE
    /\ UNCHANGED << ctlVars, queue, pollVars, renderVars, notifications,
                    orientation, userActions, handler, last, ghostQ >>

\* The poller thread, the hardware reporting poses of H.
Poller(H) ==
    \/ PollReadHardware(H)
    \/ PollReadFails
    \/ PollReadControls
    \/ PollCheck
    \/ PollPut

\* The widget callbacks of the main loop.
Callback ==
    \/ SliderRelease
    \/ PressUp
    \/ PressDown
    \/ PressRight
    \/ PressLeft
    \/ SpinboxType
    \/ SpinboxFocusOut
    \/ SpinboxArrow
    \/ PressButton

\* The render cycle of the main loop.
Render ==
    \/ ProcessQueueBegin
    \/ ProcessQueueGet
    \/ ProcessQueueRender

\* The pipeline from the arm to the render: the poller and the render
\* cycle, which no callback takes part in.
Next ==
    \/ Connect
    \/ Poller(HwPoses)
    \/ Render

Spec == Init /\ [][Next]_vars

\* The controls: the callbacks and the poller, which writes the sliders and
\* numeric boxes and closes the arm.  The render cycle reads and writes
\* nothing a callback reads or writes, and is left out.
NextControls ==
    \/ Connect
    \/ Poller(LimitPoses)
    \/ Callback

SpecControls == Init /\ [][NextControls]_vars

(***************************************************************************)
(* The scenario of three successive hardware readings: the arm connected   *)
(* from the start and staying so, the hardware at the last pose afterwards.*)
(***************************************************************************)
Readings ==
    << [pitch |-> 10, yaw |-> -5, roll |-> 0],
       [pitch |-> 10, yaw |-> -5, roll |-> 0],
       [pitch |-> 12, yaw |-> -5, roll |-> 0] >>

InitReadings ==
    /\ is_connected = TRUE
    /\ InitControls

\* update_position() of the next poll cycle: the next reading, the last one
\* again once all were reported.
ReadNext ==
    LET k == IF scn.reads < Len(Readings) THEN scn.reads + 1 ELSE scn.reads IN
    /\ ReadPosition({ Readings[k] })
    /\ scn' = [scn EXCEPT !.reads = k]

\* The end of a render cycle, the log lines counted.
RenderCounted ==
    /\ CompareLogRender
    /\ scn' = [scn EXCEPT !.logs =
                  IF cycle'.logged /\ @ < Len(Readings) THEN @ + 1 ELSE @]

PollerReadings ==
    \/ ReadNext
    \/ PollCheck
    \/ PollPut

RenderReadings ==
    \/ ProcessQueueBegin
    \/ ProcessQueueGet
    \/ RenderCounted

NextReadings ==
    \/ PollerReadings
    \/ RenderReadings

\* run() loops for ever with a sleep of 0.1 s and process_queue re-arms
\* itself every 50 ms: neither thread is starved.
SpecReadings ==
    /\ InitReadings
    /\ [][NextReadings]_vars
    /\ WF_vars(PollerReadings)
    /\ WF_vars(RenderReadings)

(***************************************************************************)
(* The pipeline beside an operator who edits the numeric boxes, the arm    *)
(* not connected: the poller publishes the text of the boxes.              *)
(***************************************************************************)
PollerEdits ==
    \/ PollReadControls
    \/ PollCheck
    \/ PollPut

OperatorEdits ==
    \/ SpinboxType
    \/ SpinboxFocusOut

NextEdits ==
    \/ PollerEdits
    \/ OperatorEdits
    \/ Render

\* run() loops for ever with a sleep of 0.1 s; process_queue runs every
\* 50 ms for as long as it schedules itself again.
SpecEdits ==
    /\ Init
    /\ [][NextEdits]_vars
    /\ WF_vars(PollerEdits)
    /\ WF_vars(Render)

(***************************************************************************)
(* The arm moving on all three axes at once: the reading of the k-th poll  *)
(* cycle is (k, k, k), so that a value tells the cycle it was read in; the *)
(* arm rests at the last pose.  The arm connected from the start.          *)
(***************************************************************************)
Sweep ==
    << [pitch |-> 1, yaw |-> 1, roll |-> 1],
       [pitch |-> 2, yaw |-> 2, roll |-> 2],
       [pitch |-> 3, yaw |-> 3, roll |-> 3] >>

\* update_position() of the next poll cycle, the arm sweeping.
ReadSweep ==
    LET k == IF scn.reads < Len(Sweep) THEN scn.reads + 1 ELSE scn.reads IN
    /\ ReadPosition({ Sweep[k] })
    /\ scn' = [scn EXCEPT !.reads = k]

PollerSweep ==
    \/ ReadSweep
    \/ PollCheck
    \/ PollPut

NextSweep ==
    \/ PollerSweep
    \/ Render

SpecSweep == InitReadings /\ [][NextSweep]_vars

(***************************************************************************)
(* The poller's writes to the widgets beside one callback, statement by    *)
(* statement: the arm connected from the start and staying so.  Whether a  *)
(* poller statement can run inside a callback depends on how Tcl was       *)
(* built; between the operator's gesture and its callback it always can.   *)
(***************************************************************************)
\* The six widget writes of a connected poll cycle, in the order of run().
Writes ==
    << [axis |-> "pitch", widget |-> "slider"],
       [axis |-> "pitch", widget |-> "spinbox"],
       [axis |-> "yaw", widget |-> "slider"],
       [axis |-> "yaw", widget |-> "spinbox"],
       [axis |-> "roll", widget |-> "slider"],
       [axis |-> "roll", widget |-> "spinbox"] >>

\* update_position() succeeds and the locals take the three readings.
PollReadLocals(H) ==
    /\ p_pc = "top"
    /\ is_connected
    /\ \E h \in H : pose' = [a \in Axes |-> PyInt(h[a])]
    /\ p_pc' = "set"
    /\ p_ax' = 1
    /\ UNCHANGED << is_connected, ctlVars, queue, renderVars, notifications,
                    orientation, userActions, handler, last, ghostQ >>

\* PollSet, a write to a numeric box running the box's command, set_slider,
\* as a press of its arrows does.
PollSetRunsCommand ==
    /\ p_pc = "set"
    /\ LET w == Writes[p_ax] IN
         IF w.widget = "slider"
         THEN /\ slider' = [slider EXCEPT ![w.axis] = pose[w.axis].x2]
              /\ UNCHANGED << spinbox, current_value, last >>
         ELSE LET out == set_slider([Control(w.axis) EXCEPT
                                        !.box = Str(pose[w.axis])],
                                    is_connected, w.axis)
              IN  /\ spinbox' = [spinbox EXCEPT ![w.axis] = out.c.box]
                  /\ current_value' =
                        [current_value EXCEPT ![w.axis] = out.c.cv]
                  /\ last' = [last EXCEPT !.cmds = @ \o out.cmds]
                  /\ UNCHANGED slider
    /\ IF p_ax < Len(Writes)
       THEN /\ p_pc' = "set"
            /\ p_ax' = p_ax + 1
       ELSE /\ p_pc' = "chk"
            /\ p_ax' = 1
    /\ UNCHANGED << is_connected, queue, pose, renderVars, notifications,
                    orientation, userActions, handler, ghostQ >>

\* self.<axis>_control.slider.set(<axis>) or .spinbox.set(<axis>)
PollSet ==
    /\ p_pc = "set"
    /\ LET w == Writes[p_ax] IN
         IF w.widget = "slider"
         THEN /\ slider' = [slider EXCEPT ![w.axis] = pose[w.axis].x2]
              /\ UNCHANGED spinbox
         ELSE /\ spinbox' = [spinbox EXCEPT ![w.axis] = Str(pose[w.axis])]
              /\ UNCHANGED slider
    /\ IF p_ax < Len(Writes)
       THEN /\ p_pc' = "set"
            /\ p_ax' = p_ax + 1
       ELSE /\ p_pc' = "chk"
            /\ p_ax' = 1
    /\ UNCHANGED << is_connected, current_value, queue, pose, renderVars,
                    notifications, orientation, userActions, handler, last,
                    ghostQ >>

\* The main loop can start a callback.
CanStart == CanAct /\ handler.pc = "idle"

\* A callback returns: what it did goes to last.
Return(result, notes) ==
    /\ last' = [NoCallback EXCEPT !.op = handler.op, !.axis = handler.axis,
                                  !.conn = is_connected, !.result = result,
                                  !.arg = handler.chosen,
                                  !.cmds = handler'.cmds, !.notes = notes]
    /\ notifications' = Tail1(notifications \o notes)
    /\ userActions' = userActions + 1

\* The operator drags a slider to h and holds it there: the Scale's own
\* motion binding sets the slider value.
SliderDrag ==
    /\ CanStart
    /\ \E a \in Axes : \E h \in SliderDrags[a] :
         /\ slider' = [slider EXCEPT ![a] = h]
         /\ handler' = [NoHandler EXCEPT !.pc = "drag", !.op = "sliderUpdate",
                                         !.axis = a,
                                         !.chosen = PyInt(Trunc(h))]
    /\ UNCHANGED << is_connected, spinbox, current_value, queue, pollVars,
                    renderVars, notifications, orientation, userActions,
                    last, ghostQ >>

\* The operator releases the slider: <ButtonRelease-1> runs sliderUpdate,
\* which reads the slider as it is now.
SliderUpdateRuns ==
    /\ handler.pc = "drag"
    /\ LET a == handler.axis
           out == sliderUpdate(Control(a), is_connected, a)
       IN  /\ spinbox' = [spinbox EXCEPT ![a] = out.c.box]
           /\ current_value' = [current_value EXCEPT ![a] = out.c.cv]
           /\ handler' = [handler EXCEPT !.pc = "idle", !.newVal = out.c.cv,
                                         !.cmds = out.cmds]
           /\ Return(out.result, out.notes)
    /\ UNCHANGED << is_connected, slider, queue, pollVars, renderVars,
                    orientation, ghostQ >>

\* incrementUp, its first statements: newVal = int(self.spinbox.get()) + 5
\* and the test of the limit.
IncrementUpRead ==
    /\ CanStart
    /\ LET h == [NoHandler EXCEPT !.op = "incrementUp", !.axis = "pitch"] IN
         IF ~CanInt(spinbox["pitch"])
         THEN /\ handler' = h
              /\ Return("raised", << >>)
         ELSE LET newVal == IntOf(spinbox["pitch"]) + StepUp
                  h1 == [h EXCEPT !.newVal = PyInt(newVal),
                                  !.chosen = PyInt(newVal)]
              IN  IF newVal >= UpLimit
                  THEN /\ handler' = h1
                       /\ Return("rejected",
                                 << "Error: Can't Move Up Any Farther" >>)
                  ELSE /\ handler' = [h1 EXCEPT !.pc = "write"]
                       /\ UNCHANGED << last, notifications, userActions >>
    /\ UNCHANGED << is_connected, ctlVars, queue, pollVars, renderVars,
                    orientation, ghostQ >>

\* self.spinbox.set(newVal); self.current_value = newVal
IncrementUpWrite ==
    /\ handler.pc = "write"
    /\ spinbox' = [spinbox EXCEPT ![handler.axis] = Str(handler.newVal)]
    /\ current_value' = [current_value EXCEPT ![handler.axis] = handler.newVal]
    /\ handler' = [handler EXCEPT !.pc = "set_slider"]
    /\ UNCHANGED << is_connected, slider, queue, pollVars, renderVars,
                    notifications, orientation, userActions, last, ghostQ >>

\* self.set_slider(): the numeric box is read again.
IncrementUpSetSlider ==
    /\ handler.pc = "set_slider"
    /\ LET a == handler.axis
           out == set_slider(Control(a), is_connected, a)
       IN  /\ slider' = [slider EXCEPT ![a] = out.c.slider]
           /\ current_value' = [current_value EXCEPT ![a] = out.c.cv]
           /\ handler' = [handler EXCEPT !.pc = "send", !.cmds = out.cmds]
    /\ UNCHANGED << is_connected, spinbox, queue, pollVars, renderVars,
                    notifications, orientation, userActions, last, ghostQ >>

\* self.send_command(), and incrementUp returns.
IncrementUpSend ==
    /\ handler.pc = "send"
    /\ handler' =
          [handler EXCEPT !.pc = "idle",
                          !.cmds = @ \o send_command(is_connected, handler.axis,
                                                     current_value[handler.axis])]
    /\ Return("accepted", << >>)
    /\ UNCHANGED << is_connected, ctlVars, queue, pollVars, renderVars,
                    orientation, ghostQ >>

PollerWrites ==
    \/ PollReadLocals(LimitPoses)
    \/ PollSet
    \/ PollCheck
    \/ PollPut

CallbackSteps ==
    \/ SliderDrag
    \/ SliderUpdateRuns
    \/ IncrementUpRead
    \/ IncrementUpWrite
    \/ IncrementUpSetSlider
    \/ IncrementUpSend

NextWrites ==
    \/ PollerWrites
    \/ CallbackSteps

SpecWrites == InitReadings /\ [][NextWrites]_vars

(***************************************************************************)
(* Properties of the pipeline (Spec)                                       *)
(***************************************************************************)
\* Position of an axis in Order.
Idx(a) == CHOOSE i \in 1..Len(Order) : Order[i] = a

\* This step is run()'s test of the queue of axis a.
PollChecks(a) ==
    /\ p_pc = "chk"
    /\ Order[p_ax] = a
    /\ << p_pc, p_ax >>' # << p_pc, p_ax >>

\* This step is process_queue's get() on the queue of axis a, and it returned.
Gets(a) ==
    /\ r_pc = "get"
    /\ Order[r_ax] = a
    /\ << r_pc, r_ax >>' # << r_pc, r_ax >>
    /\ ~render_error'

\* run() has offered pose[a] to the queue of axis a: it is past that test in
\* the cycle it is in, or between two cycles.
Offered(a) ==
    \/ p_pc = "top"
    \/ p_pc \in {"chk", "put"} /\ p_ax > Idx(a)

\* C1: in every reachable state, whatever the interleaving of poll cycles
\* and render cycles, each of the three queues holds at most one sample.
C1_AtMostOneSample == \A a \in Axes : Len(queue[a]) <= 1

\* All three queues hold their one sample while both threads are in the
\* middle of a cycle.
C1_Witness ==
    /\ \A a \in Axes : Len(queue[a]) = 1
    /\ p_pc = "chk"
    /\ p_ax = 2
    /\ r_pc = "get"

\* C2: when a poll cycle finds an axis queue already holding a sample, it
\* goes on without a put and leaves the queue as it is; and a stored sample
\* changes in no step but the get() that returns that very sample.
C2_FullSlotIsKept ==
    [][ \A a \in Axes :
          /\ (PollChecks(a) /\ Len(queue[a]) > 0)
                => (p_pc' # "put" /\ queue'[a] = queue[a])
          /\ Len(queue[a]) > 0
                => \/ queue'[a] = queue[a]
                   \/ Gets(a) /\ queue'[a] = << >> /\ new'[a] = queue[a][1]
      ]_vars

\* run() has passed the full yaw queue holding another value than the one it
\* offered, and the stored value is still there.
C2_Witness ==
    /\ p_pc = "chk"
    /\ p_ax = 2
    /\ Len(queue["yaw"]) = 1
    /\ queue["yaw"][1] # pose["yaw"]

\* C3 as stated: whenever process_queue dequeues an axis sample, the value
\* it gets is the latest one run() observed and offered for that axis.
C3_MostRecentWins ==
    [][ \A a \in Axes : (Gets(a) /\ Offered(a)) => new'[a] = pose[a] ]_vars

\* C3 as the code has it: whenever process_queue dequeues an axis sample,
\* the value it gets is the first one run() offered for that axis since the
\* axis was last dequeued; what run() observes later is dropped.
C3_FirstOfferWins ==
    [][ \A a \in Axes : Gets(a) => new'[a] = first[a] ]_vars

\* process_queue holds a yaw sample that is not the latest yaw run() offered.
C3_Witness ==
    /\ r_pc = "get"
    /\ r_ax = 2
    /\ Offered("yaw")
    /\ new["yaw"] # pose["yaw"]

\* C4: a render cycle dequeues once from each of the three queues if all
\* three hold a sample when it starts and from none otherwise, and no get()
\* raises, the poller running alongside.
C4_DrainAllOrNone ==
    /\ ~render_error
    /\ cycle.kind = "drain" => cycle.full
    /\ cycle.kind = "skip" => ~cycle.full /\ \A a \in Axes : cycle.got[a] = 0
    /\ r_pc = "get" => Len(queue[Order[r_ax]]) > 0
    /\ (cycle.kind = "drain" /\ r_pc \in {"render", "idle"})
          => \A a \in Axes : cycle.got[a] = 1

\* A cycle has dequeued all three while the poller has already refilled yaw.
C4_Witness ==
    /\ cycle.kind = "drain"
    /\ r_pc = "render"
    /\ \A a \in Axes : cycle.got[a] = 1
    /\ Len(queue["yaw"]) = 1
    /\ Len(queue["roll"]) = 0

(***************************************************************************)
(* Properties of the controls (SpecControls)                               *)
(***************************************************************************)
\* This step is a widget callback; last' tells which, and what it did.
Called == userActions' = userActions + 1

\* The handlers that change an axis control and call send_command.
AxisChanges ==
    {"sliderUpdate", "set_slider", "incrementUp", "incrementRight",
     "decrementLeft", "decrementDown"}

Directional == {"incrementUp", "incrementRight", "decrementLeft", "decrementDown"}

\* The command of each axis.
AxisCmd == [pitch |-> "set_pitch", yaw |-> "set_yaw", roll |-> "set_roll"]

\* Text that is an integer within the control's [min, max].
ValidText(t, a) == t.ty = "istr" /\ t.x2 >= 2 * Min[a] /\ t.x2 <= 2 * Max[a]

\* C5: while the arm is connected, every accepted change of an axis control
\* (slider release, spinbox step, accepted directional step) sends exactly
\* one command, the one of the control's axis.
C5_OneCommandPerChange ==
    (last.conn /\ last.result = "accepted" /\ last.op \in AxisChanges)
        => /\ Len(last.cmds) = 1
           /\ last.cmds[1].cmd = AxisCmd[last.axis]

\* The arm connected, "Move up" was accepted and set_pitch went out twice.
C5_Witness ==
    /\ last.op = "incrementUp"
    /\ last.conn
    /\ last.result = "accepted"
    /\ Len(last.cmds) = 2
    /\ last.cmds[1] = last.cmds[2]

\* C6: a numeric box left with an integer within [min, max] makes that
\* integer the current value, mirrors it to the slider and, when connected,
\* sends it to the arm.
C6_ValidEditAccepted ==
    [][ (Called /\ last'.op = "validate_spinbox" /\ ValidText(last'.arg, last'.axis))
          => LET a == last'.axis
                 n == PyInt(IntOf(last'.arg))
             IN  /\ current_value'[a] = n
                 /\ slider'[a] = n.x2
                 /\ last'.conn => last'.cmds = << [cmd |-> AxisCmd[a], val |-> n] >>
      ]_vars

\* The arm connected, the pitch box was left with 40: the slider took 40,
\* the current value did not, and nothing was sent.
C6_Witness ==
    /\ last.op = "validate_spinbox"
    /\ last.axis = "pitch"
    /\ last.arg = IStr(40)
    /\ last.conn
    /\ last.result = "accepted"
    /\ slider["pitch"] = 80
    /\ current_value["pitch"] # PyInt(40)
    /\ last.cmds = << >>

\* C7: a numeric box left with text that is no number, or an integer outside
\* [min, max], is rejected: current value and slider stay, the box shows the
\* current value again, the failure is printed, no command is sent.
C7_InvalidEditRejected ==
    [][ (Called /\ last'.op = "validate_spinbox" /\ ~ValidText(last'.arg, last'.axis))
          => LET a == last'.axis IN
             /\ last'.result = "rejected"
             /\ current_value' = current_value
             /\ slider' = slider
             /\ spinbox'[a] = IStr(Round(current_value[a]))
             /\ \A b \in Axes \ {a} : spinbox'[b] = spinbox[b]
             /\ Len(last'.printed) = 1
             /\ last'.cmds = << >>
      ]_vars

\* The arm connected, a box was left with 95 and the edit was rejected.
C7_Witness ==
    /\ last.op = "validate_spinbox"
    /\ last.arg = IStr(95)
    /\ last.conn
    /\ last.result = "rejected"
    /\ spinbox[last.axis] = IStr(Round(current_value[last.axis]))

\* The limit C8 gives for each directional step from the value v of the box.
HitsLimit(op, v) ==
    CASE op = "incrementUp" -> v + 5 >= Max["pitch"]
      [] op = "incrementRight" -> v + 20 >= Max["yaw"]
      [] op = "decrementLeft" -> v - 20 <= Min["yaw"]
      [] op = "decrementDown" -> v - 5 <= 0

Stepped(op, v) ==
    CASE op = "incrementUp" -> v + 5
      [] op = "incrementRight" -> v + 20
      [] op = "decrementLeft" -> v - 20
      [] op = "decrementDown" -> v - 5

C9_RejectedStepChangesNothing ==
    [][ (Called /\ last'.op \in Directional /\ last'.result = "rejected")
          => /\ current_value' = current_value
             /\ slider' = slider
             /\ spinbox' = spinbox
             /\ last'.cmds = << >>
             /\ Len(last'.notes) = 1
             /\ last'.notes[1] \in
                   { "Error: Can't Move Up Any Farther",
                     "Error: Can't Move Right Any Farther",
                     "Error: Can't Move Left Any Farther",
                     "Error: Can't Move Down Any Farther" }
             /\ notifications' = last'.notes
      ]_vars

\* The arm connected, "Move right" was rejected and said so.
C9_Witness ==
    /\ last.op = "incrementRight"
    /\ last.result = "rejected"
    /\ last.conn
    /\ notifications = << "Error: Can't Move Right Any Farther" >>

\* C10: while the arm is not connected no callback sends a command; slider
\* release, spinbox step and accepted directional step still store the new
\* value, the discrete buttons do nothing, and none of them raises.
C10_NothingSentWhileDisconnected ==
    [][ (Called /\ ~is_connected)
          => /\ last'.cmds = << >>
             /\ last'.op \in {"sliderUpdate", "set_slider"} \cup Buttons
                   => last'.result = "accepted"
             /\ last'.op = "sliderUpdate"
                   => current_value'[last'.axis] = PyInt(Trunc(last'.arg.x2))
             /\ last'.op = "set_slider"
                   => current_value'[last'.axis] = PyInt(IntOf(spinbox'[last'.axis]))
             /\ (last'.op \in Directional /\ spinbox[last'.axis].ty = "istr"
                      /\ ~HitsLimit(last'.op, spinbox[last'.axis].x2 \div 2))
                   => /\ last'.result = "accepted"
                      /\ current_value'[last'.axis] =
                            PyInt(Stepped(last'.op, spinbox[last'.axis].x2 \div 2))
             /\ last'.op \in Buttons => UNCHANGED << ctlVars, orientation >>
      ]_vars

\* Not connected, the yaw slider was released at -75.5 and -75 was stored.
C10_Witness ==
    /\ last.op = "sliderUpdate"
    /\ last.axis = "yaw"
    /\ ~last.conn
    /\ last.cmds = << >>
    /\ current_value["yaw"] = PyInt(-75)

(***************************************************************************)
(* Properties of the renderer (Spec)                                       *)
(***************************************************************************)
\* The angle a value stands for, in half units: the number itself, or the
\* number its text spells.
Angle(v) == v.x2

\* This step is the part of a render cycle that follows the three get()s:
\* the comparison, the log line, update_render.
Renders == r_pc = "render" /\ r_pc' = "idle"

\* C11: a drain appends a log line if and only if the drained triple differs
\* in at least one angle from the triple rendered before it (initially
\* (0, 0, 0)); so repeated drains of one triple give one line.
C11_LogIffChanged ==
    [][ Renders =>
          (cycle'.logged <=> \E a \in Axes : Angle(new[a]) # Angle(rendered[a]))
      ]_vars

\* A drain of (0, 0, 0), read from the numeric boxes, onto the initial
\* rendered (0, 0, 0) has written a log line.
C11_Witness ==
    /\ cycle.logged
    /\ logFile = << [P |-> IStr(0), Y |-> IStr(0), R |-> IStr(0)] >>
    /\ ~is_connected
    /\ notifications = << >>

\* C12: the arm connected, the rendered pose (0, 0, 0), the hardware
\* reporting (10, -5, 0), (10, -5, 0), (12, -5, 0) on successive poll cycles:
\* the log never holds more than two lines and ends up with exactly two,
\* whatever the interleaving of poll and render cycles.
C12_TwoLogLines ==
    /\ [](scn.logs <= 2)
    /\ <>[](scn.logs = 2)

\* The three readings were taken, two lines were written, and the pose
\* rendered is the third reading.
C12_Witness ==
    /\ scn.reads = 3
    /\ scn.logs = 2
    /\ rendered = [pitch |-> PyInt(12), yaw |-> PyInt(-5), roll |-> PyInt(0)]
    /\ logFile = << [P |-> IStr(12), Y |-> IStr(-5), R |-> IStr(0)] >>

(***************************************************************************)
(* Properties of the poller (SpecControls, Spec)                           *)
(***************************************************************************)
\* The latest operator event is an accepted edit of the yaw box to 40, the
\* arm not connected, and the poll cycle in progress is the first one begun
\* since; it found the arm not connected and read the numeric boxes.
FirstCycleAfterEdit ==
    /\ last.op = "validate_spinbox"
    /\ last.axis = "yaw"
    /\ last.arg = IStr(40)
    /\ last.result = "accepted"
    /\ ~last.conn
    /\ last.polls = 1
    /\ last.read = "controls"

\* C13 as stated: not connected, the yaw box set to 40 by a valid edit: the
\* next poll cycle puts 40 on the yaw queue, and no command is sent.
C13_NextCyclePublishes ==
    [][ (FirstCycleAfterEdit /\ PollChecks("yaw"))
          => /\ pose["yaw"] = IStr(40)
             /\ p_pc' = "put"
             /\ last.cmds = << >>
      ]_vars

\* C13 as the code has it: the next poll cycle reads the text 40 from the
\* yaw box and puts it on the yaw queue if that queue is empty at its test;
\* if the queue still holds a sample the 40 is dropped and the sample stays.
\* No command is sent.
C13_NextCycleOffers ==
    [][ /\ (FirstCycleAfterEdit /\ PollChecks("yaw"))
          => /\ pose["yaw"] = IStr(40)
             /\ p_pc' = "put" <=> QueueEmpty(queue["yaw"])
             /\ queue' = queue
             /\ last.cmds = << >>
        /\ (FirstCycleAfterEdit /\ p_pc = "put" /\ Order[p_ax] = "yaw" /\ p_pc' # "put")
          => queue'["yaw"] = << IStr(40) >>
      ]_vars

\* The first poll cycle after the edit has put the text 40 on the yaw queue.
C13_Witness ==
    /\ FirstCycleAfterEdit
    /\ queue["yaw"] = << IStr(40) >>
    /\ last.cmds = << >>
    /\ p_pc = "chk"
    /\ p_ax = 2

\* This step begins a poll cycle that finds the arm connected.
ConnectedCycleBegins == p_pc = "top" /\ is_connected /\ p_pc' # "top"

\* C14: a poll cycle whose position refresh fails appends the "DEVICE
\* DISCONNECTED" notification, closes the arm and goes on to the queue
\* tests like a cycle whose refresh succeeds; and run() can always take its
\* next step, whatever connects and refresh failures came before.
C14_PollerNeverStops ==
    /\ [](p_pc \in {"top", "chk", "put"} /\ ENABLED Poller(HwPoses))
    /\ [][ ConnectedCycleBegins =>
             /\ p_pc' = "chk"
             /\ p_ax' = 1
             /\ \/ /\ is_connected'
                   /\ notifications' = notifications
                   /\ \E h \in HwPoses : pose' = [a \in Axes |-> PyInt(h[a])]
                \/ /\ ~is_connected'
                   /\ notifications' = << "WARNING: DEVICE DISCONNECTED" >>
                   /\ pose' = pose
                   /\ ctlVars' = ctlVars
         ]_vars

\* A refresh failed, the arm was connected again, and run() has read the
\* hardware once more.
C14_Witness ==
    /\ notifications = << "WARNING: DEVICE DISCONNECTED" >>
    /\ is_connected
    /\ p_pc = "put"
    /\ pose["pitch"] = PyInt(10)

\* The value v is an angle within the configured range of axis a.
InRange(v, a) ==
    /\ v.ty \in {"int", "float", "istr", "fstr"}
    /\ Angle(v) >= 2 * Min[a]
    /\ Angle(v) <= 2 * Max[a]

SourceTexts(a) ==
    { Str(PyInt(h[a])) : h \in HwPoses } \cup { Str(v) : v \in ScaleGet0 }

\* C16: a log line carries P, Y, R in that order, P being a value the
\* poller read from the pitch source, Y from the yaw source, R from the roll
\* source; each get() hands over what the poller put for that very axis, and
\* the line and the rendered pose agree axis by axis.
C16_AxesNotCrossed ==
    [][ /\ (Renders /\ cycle'.logged)
          => /\ logFile'[1].P \in SourceTexts("pitch")
             /\ logFile'[1].Y \in SourceTexts("yaw")
             /\ logFile'[1].R \in SourceTexts("roll")
             /\ logFile'[1].P = Str(rendered'["pitch"])
             /\ logFile'[1].Y = Str(rendered'["yaw"])
             /\ logFile'[1].R = Str(rendered'["roll"])
        /\ \A a \in Axes :
             /\ Gets(a) => new'[a] = first[a] /\ Str(new'[a]) \in SourceTexts(a)
             /\ (PollChecks(a) /\ first[a] = None) => first'[a] = pose[a]
        /\ (p_pc = "top" /\ p_pc' = "chk" /\ is_connected')
             => \E h \in HwPoses : \A a \in Axes :
                   /\ pose'[a] = PyInt(h[a])
                   /\ spinbox'[a] = IStr(h[a])
        /\ (p_pc = "top" /\ p_pc' = "chk" /\ ~is_connected)
             => pose' = spinbox
      ]_vars

\* The log holds the line of the hardware pose: P 10, Y -5, R 0.
C16_Witness ==
    /\ cycle.logged
    /\ logFile = << [P |-> IStr(10), Y |-> IStr(-5), R |-> IStr(0)] >>
    /\ rendered = [pitch |-> PyInt(10), yaw |-> PyInt(-5), roll |-> PyInt(0)]

(***************************************************************************)
(* Properties of the projection (SpecReadings)                             *)
(***************************************************************************)
\* C17: invoking the pose projection changes no state: it neither clears
\* nor redraws the axes and does not touch the last-rendered pose.
C17_ProjectionChangesNothing ==
    [][ Renders => (canvas' = canvas /\ rendered' = rendered) ]_vars

\* update_render has run: the axes show a wireframe they did not show
\* before, and the last-rendered pose is no longer the initial one.
C17_Witness ==
    /\ cycle.drew
    /\ canvas.arm # {}
    /\ rendered["pitch"] = PyInt(10)

\* C18: what the axes show after the projection of a pose is told by that
\* pose alone: the arm base and the one wireframe of its three angles,
\* whichever pose was rendered before.
C18_ProjectionDeterministic ==
    /\ canvas.base
    /\ canvas.arm =
          IF scn.logs = 0 /\ ~cycle.drew /\ rendered = [a \in Axes |-> PyInt(0)]
          THEN {}
          ELSE { [yaw |-> -Angle(rendered["yaw"]),
                  pitch |-> Angle(rendered["pitch"]),
                  roll |-> Angle(rendered["roll"])] }

\* The pose (12, -5, 0) is shown, after (10, -5, 0) was shown before it.
C18_Witness ==
    /\ scn.logs = 2
    /\ rendered = [pitch |-> PyInt(12), yaw |-> PyInt(-5), roll |-> PyInt(0)]
    /\ canvas.arm = { [yaw |-> 10, pitch |-> 24, roll |-> 0] }

\* C19: a drain recomputes and redraws only if the drained triple differs
\* from the last-rendered pose, and stores the drained triple as the
\* last-rendered pose either way.
C19_RedrawOnlyOnChange ==
    [][ Renders =>
          /\ cycle'.drew <=> \E a \in Axes : PyNe(new[a], rendered[a])
          /\ rendered' = new
      ]_vars

\* A drain of the triple already rendered has redrawn and written no line.
C19_Witness ==
    /\ cycle.kind = "drain"
    /\ cycle.drew
    /\ ~cycle.logged
    /\ r_pc = "idle"
    /\ scn.logs = 1

(***************************************************************************)
(* Properties of a control's two widgets (SpecControls)                    *)
(***************************************************************************)
\* C20: for each axis control the slider and the numeric box hold the same
\* value whenever no edit, handler or poller write is in progress.
C20_SliderMatchesBox ==
    ~Editing =>
        \A a \in Axes :
            /\ spinbox[a].ty \in {"istr", "fstr"}
            /\ slider[a] = Angle(spinbox[a])

\* The pitch slider was released at 86.5: the box shows 86 beside it.
C20_Witness ==
    /\ last.op = "sliderUpdate"
    /\ last.axis = "pitch"
    /\ slider["pitch"] = 173
    /\ spinbox["pitch"] = IStr(86)
    /\ current_value["pitch"] = PyInt(86)

(***************************************************************************)
(* Properties of the poller's widget writes (SpecWrites, Spec, SpecReadings)*)
(***************************************************************************)
\* C21: the poller's connected-mode writes racing with a handler of the same
\* control touch the display only: the value an accepted handler stores as
\* current value and sends to the arm is the one the operator chose (where
\* the slider was released, or the displayed value plus the step), never a
\* value the poller wrote in between.
C21_HandlerStoresChoice ==
    [][ (Called /\ last'.result = "accepted")
          => /\ current_value'[last'.axis] = last'.arg
             /\ \A i \in 1..Len(last'.cmds) : last'.cmds[i].val = last'.arg
      ]_vars

\* The operator held the pitch slider at 86.5; the poller wrote the reading
\* 3 to it before the release, and 3 was stored and sent.
C21_Witness ==
    /\ last.op = "sliderUpdate"
    /\ last.axis = "pitch"
    /\ last.arg = PyInt(86)
    /\ current_value["pitch"] = PyInt(3)
    /\ last.cmds = << [cmd |-> "set_pitch", val |-> PyInt(3)] >>

\* C22: a connected poll cycle whose position refresh succeeds leaves the
\* slider and the numeric box of each of the three controls showing the
\* pitch, yaw and roll the hardware reported in that cycle, and those same
\* three values are what the cycle offers to the queues: what it tests each
\* queue for and what it puts on an empty one.
C22_WidgetsShowReading ==
    [][ /\ (ConnectedCycleBegins /\ is_connected')
          => \E h \in HwPoses : \A a \in Axes :
                /\ pose'[a] = PyInt(h[a])
                /\ slider'[a] = Angle(PyInt(h[a]))
                /\ spinbox'[a] = IStr(h[a])
        /\ p_pc \in {"chk", "put"}
          => /\ pose' = pose
             /\ ctlVars' = ctlVars
        /\ \A a \in Axes :
             /\ (PollChecks(a) /\ QueueEmpty(queue[a])) => p_pc' = "put"
             /\ (p_pc = "put" /\ Order[p_ax] = a /\ p_pc' # "put")
                   => queue'[a] = << pose[a] >>
      ]_vars

\* A connected cycle has ended: the three controls show the reading
\* (10, -5, 0) and each queue holds its angle of that reading.
C22_Witness ==
    /\ is_connected
    /\ p_pc = "top"
    /\ \A a \in Axes : \E h \in HwPoses :
         /\ slider[a] = 2 * h[a]
         /\ spinbox[a] = IStr(h[a])
         /\ queue[a] = << PyInt(h[a]) >>
    /\ slider["pitch"] = 20
    /\ slider["yaw"] = -10

\* C23: whenever no edit, handler or poll cycle is in progress, each
\* control's stored current value is the value its numeric box shows: every
\* writer of the box, the poller and an accepted edit included, also
\* updates the current value.
C23_CurrentValueIsShown ==
    (~Editing /\ p_pc = "top")
        => \A a \in Axes :
              /\ spinbox[a].ty \in {"istr", "fstr"}
              /\ Angle(current_value[a]) = Angle(spinbox[a])

\* A connected poll cycle has ended and no callback has run: the pitch box
\* shows the reading 86 and the current value is still the initial 0.
C23_Witness ==
    /\ p_pc = "top"
    /\ is_connected
    /\ last.op = "none"
    /\ spinbox["pitch"] = IStr(86)
    /\ current_value["pitch"] \in ScaleGet0

(***************************************************************************)
(* Properties of the drained triple (SpecSweep)                            *)
(***************************************************************************)
\* C24: every triple the renderer drains is coherent: its yaw, pitch and
\* roll were read by the poller in one and the same poll cycle, however the
\* poller's three tests and puts interleave with the renderer's three gets.
C24_TripleCoherent ==
    r_pc = "render"
        => /\ Angle(new["yaw"]) = Angle(new["pitch"])
           /\ Angle(new["pitch"]) = Angle(new["roll"])

\* The renderer holds yaw and pitch of the second cycle beside the roll of
\* the third.
C24_Witness ==
    /\ r_pc = "render"
    /\ new["yaw"] = PyInt(2)
    /\ new["pitch"] = PyInt(2)
    /\ new["roll"] = PyInt(3)

(***************************************************************************)
(* Progress of the pipeline (SpecEdits)                                    *)
(***************************************************************************)
\* The pose source has come to rest: the operator is through with the
\* numeric boxes, or the hardware stays at its last reading.
SourceRests == userActions = MaxUserActions \/ scn.reads = Len(Readings)

PollerSteps == << p_pc, p_ax >>' # << p_pc, p_ax >>

\* C26: no statement of a poll cycle, its connected-mode writes to the
\* sliders and numeric boxes included, sends set_pitch, set_yaw or set_roll
\* or changes a current value: the commands sent are those of the
\* callbacks alone, and a reading is never echoed back as a command.
C26_PollerSendsNothing ==
    [][ PollerSteps
          => /\ last'.cmds = last.cmds
             /\ handler'.cmds = handler.cmds
             /\ current_value' = current_value
      ]_vars

\* The poller has written the reading 86 to the pitch slider and box with
\* no callback run, and no command was sent.
C26_Witness ==
    /\ is_connected
    /\ p_pc = "chk"
    /\ slider["pitch"] = 172
    /\ spinbox["pitch"] = IStr(86)
    /\ userActions = 0
    /\ handler = NoHandler
    /\ last.cmds = << >>

=============================================================================
